---- MODULE Spec2Model ----
(***************************************************************************)
(* Render job queue of short-video-maker: ShortCreator (addToQueue,        *)
(* processQueue, createShort, status, deleteVideo) together with the       *)
(* progress events it hands to ProgressTracker.updateProgress.             *)
(*                                                                         *)
(* Node runs every callback to completion, so one action of this model is  *)
(* one turn of the event loop: the code from the point where an awaited    *)
(* collaborator call settles up to the next await on a collaborator.  The  *)
(* continuation of `await this.createShort(...)` in processQueue runs in   *)
(* the microtask queue of the same turn, hence the emission of the         *)
(* terminal event, queue.shift() and the start of the next job belong to   *)
(* one action.                                                             *)
(***************************************************************************)
EXTENDS Integers, Sequences, FiniteSets, TLC

\* ---- bounds of the environment ----------------------------------------
MaxJobs == 2        \* jobs submitted in a behaviour of the queue workload
QueueScenes == 1    \* scenes per job in the queue workload
MaxScenes == 8      \* scenes of the single job of the scene workload
MaxResponses == 2   \* GET .../progress requests in a behaviour

Ids == 1..MaxJobs         \* the values cuid() hands out, in order of submission

Responses == 1..MaxResponses   \* the express responses, in order of arrival

VideoSources == {"pexels", "plex", "venice-ai"}
MovieDurations == {0, 60}

\* no queue entry and no running createShort holds a config for the id
NoConfig == [n |-> 0, videoSource |-> "none"]

Stages ==
  <<"queued", "generating_audio", "transcribing", "fetching_videos",
    "composing", "rendering", "complete", "error">>

VARIABLES
  queue,            \* ShortCreator.queue: ids, head first
  cfg,              \* per id in the queue: sceneInput.length, config.videoSource
  nextId,           \* number of ids cuid() has handed out
  budget,           \* what the environment may still submit: [jobs, scenes]
  inFlight,         \* number of createShort calls that have not returned
  pc,               \* per id: the await createShort(id) is suspended at
  index,            \* per id: createShort's local index
  sceneRecords,     \* per id: createShort's local scenes, as input positions
  renders,          \* every call of remotion.render: [videoId, scenes]
  tempFiles,        \* per id: createShort's local tempFiles
  sourceVideoPath,  \* per id: createShort's local sourceVideoPath is set
  movieDuration,    \* per id: createShort's local movieDuration
  tmp,              \* files present in config.tempDirPath
  videos,           \* ids whose <id>.mp4 is present in config.videosDirPath
  events,           \* every event passed to updateProgress, in order
  sse,              \* ProgressTracker.connections, its responses and timers
  thrown,           \* the value a failing call of this behaviour rejects with
  tl,               \* one video's durations: tts results, scenes, render plan
  cap,              \* one scene's captions: tokens, pages, the frame rendered
  settings,         \* SettingsManager.settings
  response,         \* what the last request handler or public method returned
  config,           \* the fields of Config that SettingsManager writes
  poll,             \* one call of VeniceVideo.waitForVideo
  clip,             \* one scene's clip of the Plex movie
  style             \* one call of getTransitionStyle

vars ==
  <<queue, cfg, nextId, budget, inFlight, pc, index, sceneRecords, renders, tempFiles,
    sourceVideoPath, movieDuration, tmp, videos, events, sse, thrown, tl, cap,
    settings, response, config, poll, clip, style>>

\* the variables of the job queue
queueVars ==
  <<queue, cfg, nextId, budget, inFlight, pc, index, sceneRecords, renders, tempFiles,
    sourceVideoPath, movieDuration, tmp, videos, events, sse, thrown>>

\* the variables of the functions that are checked on their own
libraryVars == <<poll, clip, style>>

\* ---- the mutable part of the state as one value -------------------------
St ==
  [queue |-> queue, cfg |-> cfg, inFlight |-> inFlight, pc |-> pc,
   index |-> index, sceneRecords |-> sceneRecords, renders |-> renders,
   tempFiles |-> tempFiles,
   sourceVideoPath |-> sourceVideoPath, movieDuration |-> movieDuration,
   tmp |-> tmp, videos |-> videos, events |-> events, sse |-> sse,
   thrown |-> thrown]

Commit(s) ==
  /\ queue' = s.queue
  /\ cfg' = s.cfg
  /\ inFlight' = s.inFlight
  /\ pc' = s.pc
  /\ index' = s.index
  /\ sceneRecords' = s.sceneRecords
  /\ renders' = s.renders
  /\ tempFiles' = s.tempFiles
  /\ sourceVideoPath' = s.sourceVideoPath
  /\ movieDuration' = s.movieDuration
  /\ tmp' = s.tmp
  /\ videos' = s.videos
  /\ events' = s.events
  /\ sse' = s.sse
  /\ thrown' = s.thrown

\* ---- temp file names: `${cuid()}.wav|.mp3|.mp4`, unique per scene -------
TempFile(id, i, kind) == <<id, i, kind>>

\* ---- ProgressTracker -----------------------------------------------------
\* connections: per videoId the responses stored for it, <<>> for no entry;
\* videoId: the id a response was opened for, 0 before the request arrives;
\* written: what res.write has put on the response; timers: the cleanup
\* timeouts set and not yet run
NoConnections ==
  [connections |-> [id \in Ids |-> <<>>],
   videoId |-> [res \in Responses |-> 0],
   written |-> [res \in Responses |-> <<>>],
   writableEnded |-> [res \in Responses |-> FALSE],
   closed |-> [res \in Responses |-> FALSE],
   timers |-> [id \in Ids |-> 0]]

Stored(conns, res) == \E k \in 1..Len(conns) : conns[k] = res

\* the responses of every video that have not ended
recipientsOfAnyVideo(t, videoId) ==
  {res \in Responses :
     /\ \E id \in Ids : Stored(t.connections[id], res)
     /\ ~t.writableEnded[res]}

\* connections.get(event.videoId), those with !res.writableEnded
recipients(t, videoId) ==
  {res \in Responses :
     Stored(t.connections[videoId], res) /\ ~t.writableEnded[res]}

\* a write that puts the data in front of what was written before
sendEventFirst(written, event) == <<event>> \o written

\* res.write(`data: ${JSON.stringify(event)}\n\n`)
sendEvent(written, event) == Append(written, event)

\* connections.forEach(res => { if (!res.writableEnded) sendEvent(res, event) })
fanOut(t, event) ==
  [t EXCEPT !.written =
     [res \in Responses |->
        IF res \in recipients(t, event.videoId)
        THEN sendEvent(t.written[res], event)
        ELSE t.written[res]]]

\* setTimeout(..., 1000) on complete and on error
setCleanupTimer(t, event) ==
  IF event.stage \in {"complete", "error"}
  THEN [t EXCEPT !.timers[event.videoId] = @ + 1]
  ELSE t

publish(s, event) ==
  [s EXCEPT !.events = Append(@, event),
            !.sse = setCleanupTimer(fanOut(@, event), event)]

updateProgress(s, id, stage, progress) ==
  publish(s, [videoId |-> id, stage |-> stage, progress |-> progress])

\* Math.round((index / inputScenes.length) * 70)
sceneProgress(i, n) == (140 * i + n) \div (2 * n)

\* optional constructor argument veniceVideo
veniceVideo == TRUE

\* ---- ShortCreator.status -------------------------------------------------
InQueue(q, id) == \E k \in 1..Len(q) : q[k] = id

\* status with the two tests in the other order
statusFileFirst(q, vids, id) ==
  IF id \in vids THEN "ready"
  ELSE IF InQueue(q, id) THEN "processing"
  ELSE "failed"

statusOf(q, vids, id) ==
  IF InQueue(q, id) THEN "processing"
  ELSE IF id \in vids THEN "ready"
  ELSE "failed"

status(id) == statusOf(queue, videos, id)

\* ---- pieces of addToQueue / processQueue --------------------------------
\* addToQueue that starts processQueue on every submission
ShouldStartAlways(q) == Len(q) >= 1

\* addToQueue: if (this.queue.length === 1) this.processQueue()
ShouldStart(q) == Len(q) = 1

\* processQueue: const { sceneInput, config, id } = this.queue[0]
QueueHead(q) == q[1]

\* finally that drops the tail of the queue (pop) instead of its head
ShiftLast(q) == SubSeq(q, 1, Len(q) - 1)

\* finally that leaves the queue as it is
ShiftNone(q) == q

\* processQueue, finally: this.queue.shift()
Shift(q) == Tail(q)

\* ---- createShort -----------------------------------------------------------
\* remotion.render({ music, scenes, config }, videoId, orientation) is called
render(s, id) ==
  [s EXCEPT !.renders = Append(@, [videoId |-> id, scenes |-> s.sceneRecords[id]]),
            !.pc[id] = "render"]

\* the two events after the scene loop in the other order
afterScenesSwapped(s, id) ==
  LET s1 == updateProgress(s, id, "rendering", 80)
      s2 == updateProgress(s1, id, "composing", 75)
  IN render(s2, id)

\* after the scene loop: composing, rendering, await remotion.render
afterScenes(s, id) ==
  LET s1 == updateProgress(s, id, "composing", 75)
      s2 == updateProgress(s1, id, "rendering", 80)
  IN render(s2, id)

\* head of the scene loop: the next scene's generating_audio, await tts
sceneLoop(s, id) ==
  IF s.index[id] < s.cfg[id].n
  THEN [updateProgress(s, id, "generating_audio",
                       sceneProgress(s.index[id], s.cfg[id].n))
          EXCEPT !.pc[id] = "tts"]
  ELSE afterScenes(s, id)

\* a scene loop that puts each new scene in front of the others
sceneDoneUnshift(s, id) ==
  sceneLoop([s EXCEPT !.sceneRecords[id] = <<s.index[id] + 1>> \o @,
                      !.index[id] = @ + 1], id)

\* scenes.push(...); totalDuration += audioLength; index++
sceneDone(s, id) ==
  sceneLoop([s EXCEPT !.sceneRecords[id] = Append(@, s.index[id] + 1),
                      !.index[id] = @ + 1], id)

\* a createShort that does not publish 'queued' on entry
createShortUnannounced(s, id) ==
  LET s2 == [s EXCEPT !.inFlight = @ + 1,
                      !.index[id] = 0, !.sceneRecords[id] = <<>>,
                      !.tempFiles[id] = <<>>,
                      !.sourceVideoPath[id] = FALSE,
                      !.movieDuration[id] = 0]
  IN IF s2.cfg[id].videoSource = "plex"
     THEN [s2 EXCEPT !.pc[id] = "plex"]
     ELSE sceneLoop(s2, id)

\* entry of createShort up to its first await
createShort(s, id) ==
  LET s1 == updateProgress(s, id, "queued", 0)
      s2 == [s1 EXCEPT !.inFlight = @ + 1,
                       !.index[id] = 0, !.sceneRecords[id] = <<>>,
                       !.tempFiles[id] = <<>>,
                       !.sourceVideoPath[id] = FALSE,
                       !.movieDuration[id] = 0]
  IN IF s2.cfg[id].videoSource = "plex"
     THEN [s2 EXCEPT !.pc[id] = "plex"]
     ELSE sceneLoop(s2, id)

\* ---- processQueue ---------------------------------------------------------
\* entry of processQueue up to the first await inside createShort
processQueue(s) ==
  IF Len(s.queue) = 0 THEN s ELSE createShort(s, QueueHead(s.queue))

\* what the rejections of a behaviour are: an Error with its message, or a
\* value that is not an Error, which may carry a message property all the same
Messages == {"", "Unknown error", "Kokoro failed", "Video abc not found"}

Throwables == [isError : BOOLEAN, message : Messages]

AnError == [isError |-> TRUE, message |-> "Kokoro failed"]

\* the message property of whatever was thrown
errorMessageOfAnything(error) == error.message

\* error instanceof Error ? error.message : 'Unknown error'
errorMessage(error) ==
  IF error.isError THEN error.message ELSE "Unknown error"

\* the event published by the catch of processQueue
errorEvent(id, error) ==
  [videoId |-> id, stage |-> "error", progress |-> 0,
   error |-> errorMessage(error)]

\* catch (when createShort threw) and finally of the call that ran id
catchFinally(s, id, threw) ==
  LET s1 == IF threw THEN publish(s, errorEvent(id, s.thrown)) ELSE s
      s2 == [s1 EXCEPT !.inFlight = @ - 1,
                       !.pc[id] = "none", !.index[id] = 0,
                       !.sceneRecords[id] = <<>>,
                       !.cfg[id] = NoConfig,
                       !.tempFiles[id] = <<>>,
                       !.sourceVideoPath[id] = FALSE,
                       !.movieDuration[id] = 0,
                       !.queue = Shift(@)]
  IN processQueue(s2)

\* an awaited call of createShort(id) rejects
fail(s, id) == catchFinally(s, id, TRUE)

\* a cleanup loop that removes nothing
removeNoTempFiles(s, id, k) == s

\* for (const file of tempFiles) fs.removeSync(file), k files removed
removeTempFiles(s, id, k) ==
  [s EXCEPT !.tmp = @ \ {s.tempFiles[id][j] : j \in 1..k}]

\* no video is being timed, no scene's captions are being drawn
NoPlan ==
  [phase |-> "idle", fps |-> 0, paddingBack |-> 0, audio |-> <<>>,
   scenes |-> <<>>, totalDuration |-> 0, durationMs |-> 0, slots |-> <<>>]

NoCaptions ==
  [phase |-> "idle", fps |-> 0, tokens |-> <<>>, lineMaxLength |-> 0,
   lineCount |-> 0, maxDistanceMs |-> 0, pages |-> <<>>, startFrame |-> 0,
   frame |-> 0, active |-> {}]

\* ---- initial state -----------------------------------------------------------
InitState ==
  /\ queue = <<>>
  /\ cfg = [id \in Ids |-> NoConfig]
  /\ nextId = 0
  /\ inFlight = 0
  /\ pc = [id \in Ids |-> "none"]
  /\ index = [id \in Ids |-> 0]
  /\ sceneRecords = [id \in Ids |-> <<>>]
  /\ renders = <<>>
  /\ tempFiles = [id \in Ids |-> <<>>]
  /\ sourceVideoPath = [id \in Ids |-> FALSE]
  /\ movieDuration = [id \in Ids |-> 0]
  /\ tmp = {}
  /\ videos = {}
  /\ events = <<>>
  /\ sse = NoConnections

\* every failing call rejects with the same Error
OneError == thrown = AnError

Undefined == "undefined"

\* settings = {}
NoSettings ==
  [veniceApiKey |-> Undefined, veniceChatModel |-> Undefined,
   ttsProvider |-> Undefined, transcriptionProvider |-> Undefined,
   pexelsApiKey |-> Undefined]

NoResponse == [of |-> "none"]

\* no request has been answered, nothing is stored in the settings
NoRequests ==
  /\ settings = NoSettings
  /\ response = NoResponse
  /\ config = NoSettings

\* no library function has been called
NoCalls == poll = [phase |-> "idle"] /\ clip = [phase |-> "idle"]
             /\ style = [phase |-> "idle"]

\* queue workload: up to MaxJobs jobs of up to QueueScenes scenes
Init ==
  /\ InitState
  /\ NoCalls
  /\ OneError
  /\ NoRequests
  /\ budget = [jobs |-> MaxJobs, scenes |-> QueueScenes]
  /\ tl = NoPlan
  /\ cap = NoCaptions

\* scene workload: one job of up to MaxScenes scenes
SceneInit ==
  /\ InitState
  /\ NoCalls
  /\ OneError
  /\ NoRequests
  /\ budget = [jobs |-> 1, scenes |-> MaxScenes]
  /\ tl = NoPlan
  /\ cap = NoCaptions

\* ---- operations -----------------------------------------------------------
addToQueue(n, source) ==
  /\ nextId < budget.jobs
  /\ LET id == nextId + 1
         s1 == [St EXCEPT !.queue = Append(@, id),
                          !.cfg[id] = [n |-> n, videoSource |-> source]]
     IN /\ nextId' = id
        /\ Commit(IF ShouldStart(s1.queue) THEN processQueue(s1) ELSE s1)
  /\ UNCHANGED <<budget, tl, cap, settings,
                 config, libraryVars>>

\* a deleteVideo that also takes the id out of the queue
deleteVideoAndDequeue(id) ==
  /\ videos' = videos \ {id}
  /\ queue' = SelectSeq(queue, LAMBDA queued : queued # id)
  /\ UNCHANGED <<cfg, nextId, budget, inFlight, pc, index, sceneRecords,
                 renders, tempFiles,
                 sourceVideoPath, movieDuration, tmp, events, sse, thrown,
                 tl, cap, settings, response,
                 config, libraryVars>>

\* fs.removeSync(this.getVideoPath(videoId))
deleteVideo(id) ==
  /\ videos' = videos \ {id}
  /\ UNCHANGED <<queue, cfg, nextId, budget, inFlight, pc, index, sceneRecords,
                 renders, tempFiles,
                 sourceVideoPath, movieDuration, tmp, events, sse, thrown,
                 tl, cap, settings, response,
                 config, libraryVars>>

\* ---- settling of the awaited calls of createShort(id) -----------------
\* a lookup of the movie path whose failure is not caught
PlexPathUncaught(id, ok) ==
  /\ pc[id] = "plex"
  /\ Commit(IF ok
            THEN [St EXCEPT !.sourceVideoPath[id] = TRUE,
                            !.pc[id] = "duration"]
            ELSE fail(St, id))
  /\ UNCHANGED <<nextId, budget, tl, cap, settings, response,
                 config, libraryVars>>

\* await this.plexApi.getMovieFilePath(config.plexMovieId), inside try/catch
PlexPath(id, ok) ==
  /\ pc[id] = "plex"
  /\ Commit(IF ok
            THEN [St EXCEPT !.sourceVideoPath[id] = TRUE,
                            !.pc[id] = "duration"]
            ELSE sceneLoop(St, id))
  /\ UNCHANGED <<nextId, budget, tl, cap, settings, response,
                 config, libraryVars>>

\* await this.ffmpeg.getVideoDuration(sourceVideoPath)
VideoDuration(id, ok, d) ==
  /\ pc[id] = "duration"
  /\ Commit(IF ok
            THEN sceneLoop([St EXCEPT !.movieDuration[id] = d], id)
            ELSE fail(St, id))
  /\ UNCHANGED <<nextId, budget, tl, cap, settings, response,
                 config, libraryVars>>

\* await this.ttsService.generate(...); tempFiles.push(wav, mp3)
Tts(id, ok) ==
  /\ pc[id] = "tts"
  /\ Commit(IF ok
            THEN [St EXCEPT
                    !.tempFiles[id] =
                       @ \o <<TempFile(id, index[id], "wav"),
                              TempFile(id, index[id], "mp3")>>,
                    !.pc[id] = "normalize"]
            ELSE fail(St, id))
  /\ UNCHANGED <<nextId, budget, tl, cap, settings, response,
                 config, libraryVars>>

\* await this.ffmpeg.saveNormalizedAudio(audioStream, tempWavPath)
Normalize(id, ok) ==
  /\ pc[id] = "normalize"
  /\ Commit(IF ok
            THEN LET s1 == [St EXCEPT
                              !.tmp = @ \cup {TempFile(id, index[id], "wav")}]
                     s2 == updateProgress(s1, id, "transcribing",
                             sceneProgress(index[id], cfg[id].n) + 5)
                 IN [s2 EXCEPT !.pc[id] = "caption"]
            ELSE fail(St, id))
  /\ UNCHANGED <<nextId, budget, tl, cap, settings, response,
                 config, libraryVars>>

\* await this.whisper.CreateCaption(tempWavPath)
Caption(id, ok) ==
  /\ pc[id] = "caption"
  /\ Commit(IF ok THEN [St EXCEPT !.pc[id] = "mp3"] ELSE fail(St, id))
  /\ UNCHANGED <<nextId, budget, tl, cap, settings, response,
                 config, libraryVars>>

\* which footage branch the scene takes
footageBranch(s, id) ==
  IF s.cfg[id].videoSource = "venice-ai" /\ veniceVideo THEN "venice"
  ELSE IF s.sourceVideoPath[id] /\ s.movieDuration[id] > 0 THEN "crop"
  ELSE "pexels"

\* await this.ffmpeg.saveToMp3(audioStream, tempMp3Path)
Mp3(id, ok) ==
  /\ pc[id] = "mp3"
  /\ Commit(IF ok
            THEN LET s1 == [St EXCEPT
                              !.tmp = @ \cup {TempFile(id, index[id], "mp3")}]
                     s2 == updateProgress(s1, id, "fetching_videos",
                             sceneProgress(index[id], cfg[id].n) + 10)
                 IN [s2 EXCEPT !.pc[id] = footageBranch(s2, id)]
            ELSE fail(St, id))
  /\ UNCHANGED <<nextId, budget, tl, cap, settings, response,
                 config, libraryVars>>

\* tempFiles.push(tempVideoPath); fs.createWriteStream(tempVideoPath);
\* https.get(...): the download promise is pending
startDownload(s, id) ==
  [s EXCEPT !.tempFiles[id] = Append(@, TempFile(id, s.index[id], "mp4")),
            !.tmp = @ \cup {TempFile(id, s.index[id], "mp4")},
            !.pc[id] = "download"]

VeniceResults == {"rejected", "dataUrl", "badDataUrl", "httpsUrl"}

\* await this.veniceVideo.generateTextToVideo(...)
Venice(id, result) ==
  /\ pc[id] = "venice"
  /\ Commit(CASE result = "rejected" -> fail(St, id)
              [] result = "httpsUrl" -> startDownload(St, id)
              [] result = "dataUrl" ->
                   [St EXCEPT
                      !.tempFiles[id] =
                         Append(@, TempFile(id, index[id], "mp4")),
                      !.pc[id] = "write"]
              [] result = "badDataUrl" ->
                   fail([St EXCEPT
                           !.tempFiles[id] =
                              Append(@, TempFile(id, index[id], "mp4"))],
                        id))
  /\ UNCHANGED <<nextId, budget, tl, cap, settings, response,
                 config, libraryVars>>

\* await fs.promises.writeFile(tempVideoPath, buffer)
WriteFile(id, ok) ==
  /\ pc[id] = "write"
  /\ Commit(IF ok
            THEN sceneDone([St EXCEPT
                              !.tmp = @ \cup {TempFile(id, index[id], "mp4")}],
                           id)
            ELSE fail(St, id))
  /\ UNCHANGED <<nextId, budget, tl, cap, settings, response,
                 config, libraryVars>>

\* await this.ffmpeg.dynamicCrop(...); tempFiles.push(tempClipPath)
Crop(id, ok) ==
  /\ pc[id] = "crop"
  /\ Commit(IF ok
            THEN sceneDone([St EXCEPT
                              !.tmp = @ \cup {TempFile(id, index[id], "mp4")},
                              !.tempFiles[id] =
                                 Append(@, TempFile(id, index[id], "mp4"))],
                           id)
            ELSE fail(St, id))
  /\ UNCHANGED <<nextId, budget, tl, cap, settings, response,
                 config, libraryVars>>

\* await this.pexelsApi.findVideo(...)
Pexels(id, ok) ==
  /\ pc[id] = "pexels"
  /\ Commit(IF ok THEN startDownload(St, id) ELSE fail(St, id))
  /\ UNCHANGED <<nextId, budget, tl, cap, settings, response,
                 config, libraryVars>>

\* what the https request and the piped response can do
DownloadOutcomes == {"finish", "statusNot200", "requestError", "responseAborted"}

\* await new Promise((resolve, reject) => { https.get(...) ... })
Download(id, outcome) ==
  /\ pc[id] = "download"
  /\ Commit(CASE outcome = "finish" -> sceneDone(St, id)
              [] outcome = "statusNot200" -> fail(St, id)
              [] outcome = "requestError" ->
                   fail([St EXCEPT
                           !.tmp = @ \ {TempFile(id, index[id], "mp4")}], id)
              [] outcome = "responseAborted" ->
                   [St EXCEPT !.pc[id] = "stalled"])
  /\ UNCHANGED <<nextId, budget, tl, cap, settings, response,
                 config, libraryVars>>

\* remotion.render writes <videoId>.mp4 before its promise resolves
RenderEncode(id) ==
  /\ pc[id] = "render"
  /\ Commit([St EXCEPT !.videos = @ \cup {id}, !.pc[id] = "encoded"])
  /\ UNCHANGED <<nextId, budget, tl, cap, settings, response,
                 config, libraryVars>>

\* await this.remotion.render(...) rejects
RenderFail(id) ==
  /\ pc[id] = "render"
  /\ Commit(fail(St, id))
  /\ UNCHANGED <<nextId, budget, tl, cap, settings, response,
                 config, libraryVars>>

\* await this.remotion.render(...) resolves: complete, removal of the temp
\* files (fs.removeSync throws at file k+1 when k < tempFiles.length), return
RenderDone(id, k) ==
  /\ pc[id] = "encoded"
  /\ k \in 0..Len(tempFiles[id])
  /\ LET s1 == updateProgress(St, id, "complete", 100)
         s2 == removeTempFiles(s1, id, k)
     IN Commit(catchFinally(s2, id, k < Len(tempFiles[id])))
  /\ UNCHANGED <<nextId, budget, tl, cap, settings, response,
                 config, libraryVars>>

Settle(id) ==
  \/ \E ok \in BOOLEAN : PlexPath(id, ok)
  \/ \E ok \in BOOLEAN, d \in MovieDurations : VideoDuration(id, ok, d)
  \/ \E ok \in BOOLEAN : Tts(id, ok)
  \/ \E ok \in BOOLEAN : Normalize(id, ok)
  \/ \E ok \in BOOLEAN : Caption(id, ok)
  \/ \E ok \in BOOLEAN : Mp3(id, ok)
  \/ \E r \in VeniceResults : Venice(id, r)
  \/ \E ok \in BOOLEAN : WriteFile(id, ok)
  \/ \E ok \in BOOLEAN : Crop(id, ok)
  \/ \E ok \in BOOLEAN : Pexels(id, ok)
  \/ \E o \in DownloadOutcomes : Download(id, o)
  \/ RenderEncode(id)
  \/ RenderFail(id)
  \/ \E k \in 0..(3 * MaxScenes + 3) : RenderDone(id, k)

Next ==
  \/ \E n \in 1..budget.scenes, source \in VideoSources :
       addToQueue(n, source) /\ UNCHANGED response
  \/ \E id \in Ids : deleteVideo(id)
  \/ \E id \in Ids : Settle(id)

Spec == Init /\ [][Next]_vars

SceneSpec == SceneInit /\ [][Next]_vars

\* every pending collaborator call of the running job settles
FairSpec == Init /\ [][Next]_vars /\ \A id \in Ids : WF_vars(Settle(id))

\* ---- vocabulary of the properties ---------------------------------------
Terminal(e) == e.stage \in {"complete", "error"}

Positions(id) == {i \in 1..Len(events) : events[i].videoId = id}

EventsOf(id) == SelectSeq(events, LAMBDA e : e.videoId = id)

TerminalPositions(id) == {i \in Positions(id) : Terminal(events[i])}

HasStage(id, stage) == \E i \in Positions(id) : events[i].stage = stage

Running == {id \in Ids : pc[id] # "none"}

Submitted(id) == id <= nextId

StageRank(stage) == CHOOSE k \in 1..Len(Stages) : Stages[k] = stage

\* id ran to its complete event and no error event was emitted for it
Successful(id) == HasStage(id, "complete") /\ ~HasStage(id, "error")

\* the events of id up to and including its first complete event
UpToComplete(id) ==
  LET E == EventsOf(id)
      c == CHOOSE k \in 1..Len(E) :
             /\ E[k].stage = "complete"
             /\ \A j \in 1..(k - 1) : E[j].stage # "complete"
  IN SubSeq(E, 1, c)

StagesOf(E) == [k \in 1..Len(E) |-> E[k].stage]

\* ---- C1 -------------------------------------------------------------------
\* C1: at most one job is being processed at any time: at most one call of
\* createShort is in flight, it runs the head of the queue, and every job
\* behind the head has only been appended (createShort has not been entered
\* for it and no progress event of it exists).
C1_SingleConcurrency ==
  /\ inFlight <= 1
  /\ Cardinality(Running) = inFlight
  /\ \A id \in Running : queue # <<>> /\ queue[1] = id
  /\ \A k \in 2..Len(queue) :
        pc[queue[k]] = "none" /\ Positions(queue[k]) = {}

\* a job waits behind the job that is being processed
C1_Witness ==
  /\ Len(queue) = 2
  /\ pc[queue[1]] = "caption"
  /\ pc[queue[2]] = "none"

CollaboratorFails(id) ==
  \/ \E d \in MovieDurations : VideoDuration(id, FALSE, d)
  \/ Tts(id, FALSE)
  \/ Normalize(id, FALSE)
  \/ Caption(id, FALSE)
  \/ Mp3(id, FALSE)
  \/ Venice(id, "rejected")
  \/ WriteFile(id, FALSE)
  \/ Crop(id, FALSE)
  \/ Pexels(id, FALSE)
  \/ \E o \in DownloadOutcomes \ {"finish"} : Download(id, o)
  \/ RenderFail(id)

\* the step emits the error event of id, removes id from the queue and
\* enters createShort for the next job, if there is one
FailureHandled(id) ==
  /\ Len(events') > Len(events)
  /\ events'[Len(events) + 1] = errorEvent(id, thrown)
  /\ ~InQueue(queue', id)
  /\ queue' # <<>> => pc'[queue'[1]] # "none"

\* C3: failure isolation: whenever a collaborator call of job A fails, at any
\* scene and any stage, the terminal error event of A is emitted, A leaves
\* the queue and the job behind it is started.
C3_FailureIsolation ==
  [][\A id \in Ids : CollaboratorFails(id) => FailureHandled(id)]_vars

\* ---- C4 -------------------------------------------------------------------
\* C4: with every pending collaborator call settling, every accepted job
\* eventually has a terminal event and has left the queue.
C4_EveryJobFinishes ==
  \A id \in Ids :
    InQueue(queue, id) ~> (~InQueue(queue, id) /\ TerminalPositions(id) # {})

\* ---- C5 -------------------------------------------------------------------
\* C5: once a failed job has left the queue (the queue has advanced), no
\* temp file created for it is left in the temp directory.
C5_TempPurgedOnFailure ==
  \A id \in Ids :
    (HasStage(id, "error") /\ ~InQueue(queue, id)) =>
       \A f \in tmp : f[1] # id

\* ---- C6 -------------------------------------------------------------------
\* C6: a job has at most one terminal event, no event of the job follows
\* it, and a job that has left the queue has exactly one.
C6_ExactlyOneTerminal ==
  \A id \in Ids :
    /\ Cardinality(TerminalPositions(id)) <= 1
    /\ \A i \in TerminalPositions(id) : \A j \in Positions(id) : j <= i
    /\ (Submitted(id) /\ ~InQueue(queue, id)) =>
          Cardinality(TerminalPositions(id)) = 1

SceneStages == <<"generating_audio", "transcribing", "fetching_videos">>

RECURSIVE Repeat(_, _)
Repeat(sq, m) == IF m = 0 THEN <<>> ELSE sq \o Repeat(sq, m - 1)

ExpectedStages(m) ==
  <<"queued">> \o Repeat(SceneStages, m)
     \o <<"composing", "rendering", "complete">>

C8_ProgressMonotonic ==
  \A id \in Ids :
    Successful(id) =>
      LET U == UpToComplete(id)
      IN \A k \in 1..(Len(U) - 1) : U[k].progress <= U[k + 1].progress

\* ---- C9 -------------------------------------------------------------------
\* C9: status(id) is processing exactly for the ids in the queue, otherwise
\* ready exactly when the artifact exists, otherwise failed; an id that was
\* never submitted reports failed.
C9_Status ==
  \A id \in Ids :
    LET queued == id \in {queue[k] : k \in 1..Len(queue)}
    IN /\ (status(id) = "processing") <=> queued
       /\ ~queued => ((status(id) = "ready") <=> (id \in videos))
       /\ (~queued /\ id \notin videos) => status(id) = "failed"
       /\ ~Submitted(id) => status(id) = "failed"

\* id is in the queue while its artifact is already on disk, another id was
\* never submitted
C9_Witness ==
  /\ \E id \in Ids : InQueue(queue, id) /\ id \in videos
  /\ \E id \in Ids : ~Submitted(id)

\* ---- C10 ------------------------------------------------------------------
\* C10: once the terminal event of a job has been emitted, status never
\* reports processing for it; after an error event with no artifact on disk
\* it reports failed.
C10_StatusAfterTerminal ==
  \A id \in Ids :
    TerminalPositions(id) # {} =>
      /\ status(id) \in {"ready", "failed"}
      /\ (HasStage(id, "error") /\ id \notin videos) => status(id) = "failed"

\* one job has completed and is ready, another has failed
C10_Witness ==
  /\ \E id \in Ids : HasStage(id, "complete") /\ status(id) = "ready"
  /\ \E id \in Ids : HasStage(id, "error") /\ status(id) = "failed"

\* ---- one video's durations: ShortCreator's sums, LandscapeVideo's slots ----
\* Times are kept in milliseconds and frame positions in thousandths of a
\* frame (milliseconds times fps), so that seconds * fps, / 1000 and * 1000
\* are exact: 4.0 s at 30 fps is 4000 * 30 = 120000, frame 120.
MaxPlanScenes == 3

\* frames per second of the composition (useVideoConfig)
Fps == {25, 30}

\* audio lengths ttsService.generate returns, in milliseconds
AudioLengths == {4000, 4500, 6000}

\* config.paddingBack, in milliseconds; 0 is the falsy "no padding"
Paddings == {0, 1500}

AudioLists ==
  UNION {[1..n -> AudioLengths] : n \in 1..MaxPlanScenes}

\* let { audioLength } = audio; the last scene gets paddingBack / 1000 more
audioLength(audio, i, n, paddingBack) ==
  IF i + 1 = n /\ paddingBack # 0 THEN audio + paddingBack ELSE audio

\* totalDuration after the loop: paddingBack / 1000 is added
paddedTotal(totalDuration, paddingBack) ==
  IF paddingBack # 0 THEN totalDuration + paddingBack ELSE totalDuration

\* scenes.slice(0, k).reduce((acc, curr) => acc + curr.audio.duration, 0)
RECURSIVE sumDurations(_, _)
sumDurations(scenes, k) ==
  IF k = 0 THEN 0 ELSE sumDurations(scenes, k - 1) + scenes[k]

\* startFrame of scene i (0-based), in thousandths of a frame
startFrame(scenes, i, fps) == sumDurations(scenes, i) * fps

\* durationInFrames of scene i (0-based), in thousandths of a frame
durationInFrames(scenes, i, fps, paddingBack) ==
  sumDurations(scenes, i + 1) * fps
    + (IF paddingBack # 0 /\ i = Len(scenes) - 1 THEN paddingBack * fps ELSE 0)

\* the composition's length for config.durationMs, in thousandths of a frame
planFrames(durationMs, fps) == durationMs * fps

\* Math.round of x / 1000 for x >= 0
Round1000(x) == (x + 500) \div 1000

TimelineInit ==
  /\ InitState
  /\ NoCalls
  /\ OneError
  /\ NoRequests
  /\ budget = [jobs |-> 0, scenes |-> 0]
  /\ cap = NoCaptions
  /\ \E f \in Fps, p \in Paddings, a \in AudioLists :
       tl = [NoPlan EXCEPT !.phase = "scenes", !.fps = f, !.paddingBack = p,
                           !.audio = a]

\* one pass of the scene loop: scenes.push, totalDuration += audioLength
PushScene ==
  /\ tl.phase = "scenes"
  /\ Len(tl.scenes) < Len(tl.audio)
  /\ LET i == Len(tl.scenes)
         len == audioLength(tl.audio[i + 1], i, Len(tl.audio), tl.paddingBack)
     IN tl' = [tl EXCEPT !.scenes = Append(@, len),
                         !.totalDuration = @ + len]
  /\ UNCHANGED <<queueVars, cap, settings, response,
                 config, libraryVars>>

\* after the loop: pad the total, hand durationMs to remotion.render
Render ==
  /\ tl.phase = "scenes"
  /\ Len(tl.scenes) = Len(tl.audio)
  /\ LET total == paddedTotal(tl.totalDuration, tl.paddingBack)
     IN tl' = [tl EXCEPT !.totalDuration = total, !.durationMs = total,
                         !.phase = "render"]
  /\ UNCHANGED <<queueVars, cap, settings, response,
                 config, libraryVars>>

\* LandscapeVideo lays out one Sequence per scene
Compose ==
  /\ tl.phase = "render"
  /\ tl' = [tl EXCEPT
       !.slots = [k \in 1..Len(tl.scenes) |->
          [startFrame |-> startFrame(tl.scenes, k - 1, tl.fps),
           durationInFrames |->
             durationInFrames(tl.scenes, k - 1, tl.fps, tl.paddingBack)]],
       !.phase = "composed"]
  /\ UNCHANGED <<queueVars, cap, settings, response,
                 config, libraryVars>>

TimelineNext == PushScene \/ Render \/ Compose

TimelineSpec == TimelineInit /\ [][TimelineNext]_vars

\* ---- vocabulary of the timeline properties ---------------------------------
Composed == tl.phase = "composed"

NumScenes == Len(tl.scenes)

\* the padding extension of a slot: fps * paddingBack / 1000 for the last only
Extension(k) == IF k = NumScenes THEN tl.paddingBack * tl.fps ELSE 0

RECURSIVE SumSlotDurations(_)
SumSlotDurations(k) ==
  IF k = 0 THEN 0 ELSE SumSlotDurations(k - 1) + tl.slots[k].durationInFrames

\* C11: every scene starts at fps times the durations before it and lasts fps
\* times its own duration, the last one longer by the padding
C11_SlotPerScene ==
  Composed =>
    \A k \in 1..NumScenes :
      /\ tl.slots[k].startFrame = tl.fps * sumDurations(tl.scenes, k - 1)
      /\ tl.slots[k].durationInFrames = tl.fps * tl.scenes[k] + Extension(k)

\* C12: each slot ends where the next one starts, and starts strictly grow
C12_SlotsContiguous ==
  Composed =>
    \A k \in 1..(NumScenes - 1) :
      /\ tl.slots[k].startFrame + tl.slots[k].durationInFrames
           = tl.slots[k + 1].startFrame
      /\ tl.slots[k].startFrame < tl.slots[k + 1].startFrame

\* C13: without the padding extension the slot durations add up to the
\* rounded fps times the summed audio durations, to within one frame
C13_DurationsAddUp ==
  Composed =>
    LET slots == SumSlotDurations(NumScenes) - Extension(NumScenes)
        audio == 1000 * Round1000(tl.fps * sumDurations(tl.scenes, NumScenes))
    IN slots - audio \in -1000..1000

\* C14: durationMs is the synthesized audio plus paddingBack once, and only
\* the last slot is longer than its audio, by fps * paddingBack / 1000
C14_PaddingOnce ==
  Composed =>
    /\ tl.durationMs = sumDurations(tl.audio, NumScenes) + tl.paddingBack
    /\ \A k \in 1..NumScenes :
         tl.slots[k].durationInFrames = tl.fps * tl.audio[k] + Extension(k)

\* C15: the plan's length in frames is where the last slot ends
C15_PlanEndsWithLastSlot ==
  Composed =>
    planFrames(tl.durationMs, tl.fps)
      = tl.slots[NumScenes].startFrame + tl.slots[NumScenes].durationInFrames

\* ---- one scene's captions: the tokens whisper returns ----------------------
MaxTokens == 3

Words == {"hi", "there", "extraordinary"}

\* how long a word is spoken, in milliseconds
SpokenMs(text) == IF text = "there" THEN 400 ELSE 300

\* silence before a word: none (abutting tokens), short, long
Gaps == {0, 200, 1200}

\* startMs of the first token
Offsets == {0, 110}

\* the captions of one scene: ordered, not overlapping
RECURSIVE buildCaptions(_, _, _)
buildCaptions(choice, k, offset) ==
  IF k = 0 THEN <<>>
  ELSE LET before == buildCaptions(choice, k - 1, offset)
           start == IF k = 1 THEN offset
                    ELSE before[k - 1].endMs + choice[k][2]
       IN Append(before, [text |-> choice[k][1], startMs |-> start,
                          endMs |-> start + SpokenMs(choice[k][1])])

CaptionLists ==
  {buildCaptions(choice, Len(choice), offset) :
     choice \in UNION {[1..n -> Words \X Gaps] : n \in 0..MaxTokens},
     offset \in Offsets}

\* ---- the active-token test of LandscapeVideo --------------------------------
\* frame >= startFrame + (text.startMs / 1000) * fps &&
\* frame <= startFrame + (text.endMs / 1000) * fps, with frame a whole frame
\* and startFrame in thousandths of a frame
active(text, frame, sceneStart, fps) ==
  /\ frame * 1000 >= sceneStart + text.startMs * fps
  /\ frame * 1000 <= sceneStart + text.endMs * fps

\* the scene is the first one, or follows one scene of 4.0 s
SceneStarts(fps) == {startFrame(<<4000>>, i, fps) : i \in {0, 1}}

\* the frames around the token boundaries, where the test changes its value
FramesNear(c) ==
  {f \in {(c.startFrame \div 1000) + Round1000(ms * c.fps) + d :
            ms \in {c.tokens[k].startMs : k \in 1..Len(c.tokens)}
                     \cup {c.tokens[k].endMs : k \in 1..Len(c.tokens)},
            d \in {-1, 0, 1}} : f >= 0}

HighlightInit ==
  /\ InitState
  /\ NoCalls
  /\ OneError
  /\ NoRequests
  /\ budget = [jobs |-> 0, scenes |-> 0]
  /\ tl = NoPlan
  /\ \E f \in Fps, tokens \in CaptionLists :
       \E s \in SceneStarts(f) :
         cap = [NoCaptions EXCEPT !.phase = "captions", !.fps = f,
                                  !.tokens = tokens, !.startFrame = s]

\* useCurrentFrame returns f: every text of the scene is tested
DrawFrame(f) ==
  /\ cap.phase \in {"captions", "drawn"}
  /\ cap' = [cap EXCEPT
       !.phase = "drawn",
       !.frame = f,
       !.active = {k \in 1..Len(cap.tokens) :
                     active(cap.tokens[k], f, cap.startFrame, cap.fps)}]
  /\ UNCHANGED <<queueVars, tl, settings, response,
                 config, libraryVars>>

HighlightNext == \E f \in FramesNear(cap) : DrawFrame(f)

HighlightSpec == HighlightInit /\ [][HighlightNext]_vars

\* ---- vocabulary of the highlighting properties ------------------------------
Drawn == cap.phase = "drawn"

\* sceneStartFrame + round(ms * fps / 1000), in thousandths of a frame
RoundedFrame(ms) == cap.startFrame + 1000 * Round1000(ms * cap.fps)

\* C16: a token is active at the frame its rounded start falls on, and not
\* active one frame after the frame its rounded end falls on
C16_ActiveAtRoundedBounds ==
  Drawn =>
    \A k \in 1..Len(cap.tokens) :
      /\ cap.frame * 1000 = RoundedFrame(cap.tokens[k].startMs)
           => k \in cap.active
      /\ cap.frame * 1000 = RoundedFrame(cap.tokens[k].endMs) + 1000
           => k \notin cap.active

\* C17: at every frame at most one token of the scene is active
C17_AtMostOneActive ==
  Drawn => Cardinality(cap.active) <= 1

\* ---- createCaptionPages: tokens to pages of lines ---------------------------
\* the call of LandscapeVideo passes 30, 1 and 1000
LineMaxLengths == {7, 30}

LineCounts == {1, 2}

MaxDistances == {100, 1000}

RECURSIVE lineCharLength(_)
lineCharLength(line) ==
  IF line = <<>> THEN 0
  ELSE Len(Head(line).text) + lineCharLength(Tail(line))

\* the token is accumulated into the current line
fitsAnything(line, text, lineMaxLength) == TRUE

fits(line, text, lineMaxLength) ==
  line = <<>> \/ lineCharLength(line) + Len(text.text) <= lineMaxLength

\* a long silence before the token forces a page break
gapBreakNever(previous, text, maxDistanceMs) == FALSE

gapBreak(previous, text, maxDistanceMs) ==
  text.startMs - previous.endMs > maxDistanceMs

\* a page of lines; its bounds are those of its first and last token
pageOf(lines) ==
  [startMs |-> lines[1][1].startMs,
   endMs |-> lines[Len(lines)][Len(lines[Len(lines)])].endMs,
   lines |-> lines]

\* the current line is closed into the current page
closeLine(acc) ==
  IF acc.line = <<>> THEN acc
  ELSE [acc EXCEPT !.lines = Append(@, acc.line), !.line = <<>>]

\* the current line and the current page are closed
closePageLosingLine(acc) ==
  IF acc.lines = <<>> THEN [acc EXCEPT !.line = <<>>]
  ELSE [pages |-> Append(acc.pages, pageOf(acc.lines)),
        lines |-> <<>>, line |-> <<>>]

closePage(acc) ==
  LET closed == closeLine(acc)
  IN IF closed.lines = <<>> THEN closed
     ELSE [pages |-> Append(closed.pages, pageOf(closed.lines)),
           lines |-> <<>>, line |-> <<>>]

\* one token of the walk
placeToken(acc, captions, k, lineMaxLength, lineCount, maxDistanceMs) ==
  LET text == captions[k]
  IN IF k > 1 /\ gapBreak(captions[k - 1], text, maxDistanceMs)
     THEN [closePage(acc) EXCEPT !.line = <<text>>]
     ELSE IF fits(acc.line, text, lineMaxLength)
     THEN [acc EXCEPT !.line = Append(@, text)]
     ELSE IF Len(acc.lines) + 2 > lineCount
     THEN [closePage(acc) EXCEPT !.line = <<text>>]
     ELSE [closeLine(acc) EXCEPT !.line = <<text>>]

RECURSIVE walkCaptions(_, _, _, _, _)
walkCaptions(captions, k, lineMaxLength, lineCount, maxDistanceMs) ==
  IF k = 0 THEN [pages |-> <<>>, lines |-> <<>>, line |-> <<>>]
  ELSE placeToken(
         walkCaptions(captions, k - 1, lineMaxLength, lineCount, maxDistanceMs),
         captions, k, lineMaxLength, lineCount, maxDistanceMs)

createCaptionPages(captions, lineMaxLength, lineCount, maxDistanceMs) ==
  closePage(walkCaptions(captions, Len(captions), lineMaxLength, lineCount,
                         maxDistanceMs)).pages

CaptionInit ==
  /\ InitState
  /\ NoCalls
  /\ OneError
  /\ NoRequests
  /\ budget = [jobs |-> 0, scenes |-> 0]
  /\ tl = NoPlan
  /\ \E tokens \in CaptionLists, l \in LineMaxLengths, c \in LineCounts,
        d \in MaxDistances :
       cap = [NoCaptions EXCEPT !.phase = "captions", !.tokens = tokens,
                !.lineMaxLength = l, !.lineCount = c, !.maxDistanceMs = d]

\* const pages = createCaptionPages({captions, lineMaxLength, lineCount,
\* maxDistanceMs})
Paginate ==
  /\ cap.phase = "captions"
  /\ cap' = [cap EXCEPT
       !.phase = "paged",
       !.pages = createCaptionPages(cap.tokens, cap.lineMaxLength,
                                    cap.lineCount, cap.maxDistanceMs)]
  /\ UNCHANGED <<queueVars, tl, settings, response,
                 config, libraryVars>>

CaptionNext == Paginate

CaptionSpec == CaptionInit /\ [][CaptionNext]_vars

\* ---- vocabulary of the pagination properties --------------------------------
Paged == cap.phase = "paged"

RECURSIVE Concat(_)
Concat(seqs) == IF seqs = <<>> THEN <<>> ELSE Head(seqs) \o Concat(Tail(seqs))

\* every line of every page, in order
AllLines == Concat([p \in 1..Len(cap.pages) |-> cap.pages[p].lines])

TooLong(text) == Len(text.text) > cap.lineMaxLength

InLine(text, line) == \E j \in 1..Len(line) : line[j] = text

InPage(text, p) ==
  \E l \in 1..Len(cap.pages[p].lines) : InLine(text, cap.pages[p].lines[l])

\* C18: the tokens of all pages and lines, in order, are the input tokens, and
\* a token longer than lineMaxLength is alone on its line
C18_Coverage ==
  Paged =>
    /\ Concat(AllLines) = cap.tokens
    /\ \A l \in 1..Len(AllLines) :
         (\E j \in 1..Len(AllLines[l]) : TooLong(AllLines[l][j]))
           => Len(AllLines[l]) = 1

\* an over-long token among other tokens, spread over several pages
C18_Witness ==
  /\ Paged
  /\ Len(cap.pages) >= 2
  /\ \E k \in 1..Len(cap.tokens) : TooLong(cap.tokens[k])
  /\ \E k \in 1..Len(cap.tokens) : ~TooLong(cap.tokens[k])

\* C19 as stated: every line is at most lineMaxLength characters long
C19_LineLengthBound ==
  Paged =>
    \A l \in 1..Len(AllLines) :
      lineCharLength(AllLines[l]) <= cap.lineMaxLength

\* C19 amended: every line is at most lineMaxLength characters long, unless it
\* holds one single token that is itself longer
C19_LineLengthBoundUnlessSingle ==
  Paged =>
    \A l \in 1..Len(AllLines) :
      \/ lineCharLength(AllLines[l]) <= cap.lineMaxLength
      \/ Len(AllLines[l]) = 1 /\ TooLong(AllLines[l][1])

\* a line filled to the bound by two tokens next to an over-long token's line
C19_Witness ==
  /\ Paged
  /\ \E l \in 1..Len(AllLines) :
       Len(AllLines[l]) = 2 /\ lineCharLength(AllLines[l]) = cap.lineMaxLength
  /\ \E l \in 1..Len(AllLines) :
       Len(AllLines[l]) = 1 /\ TooLong(AllLines[l][1])

\* C20: two tokens separated by more than maxDistanceMs are in different pages
C20_GapForcesPageBreak ==
  Paged =>
    \A k \in 1..(Len(cap.tokens) - 1) :
      cap.tokens[k + 1].startMs - cap.tokens[k].endMs > cap.maxDistanceMs
        => /\ \E p \in 1..Len(cap.pages) : InPage(cap.tokens[k], p)
           /\ \E p \in 1..Len(cap.pages) : InPage(cap.tokens[k + 1], p)
           /\ ~\E p \in 1..Len(cap.pages) :
                InPage(cap.tokens[k], p) /\ InPage(cap.tokens[k + 1], p)

\* (hi, 0, 300), (there, 500, 900) with a threshold of 100 and room on the line
C20_Witness ==
  /\ Paged
  /\ cap.tokens = <<[text |-> "hi", startMs |-> 0, endMs |-> 300],
                    [text |-> "there", startMs |-> 500, endMs |-> 900]>>
  /\ cap.maxDistanceMs = 100
  /\ cap.lineMaxLength = 30
  /\ Len(cap.pages) = 2

\* ---- ProgressTracker: the subscribers of the progress stream ----------------
\* the message addConnection writes first
Connected(videoId) ==
  [videoId |-> videoId, stage |-> "queued", progress |-> 0,
   message |-> "Connected to progress stream"]

\* connections.splice(indexOf(res), 1); the entry is deleted when it is empty
removeConnection(t, videoId, res) ==
  [t EXCEPT !.connections[videoId] = SelectSeq(@, LAMBDA r : r # res)]

\* the timeout that ends the responses and leaves the entry in the map
cleanupKeepingEntry(t, videoId) ==
  [t EXCEPT !.writableEnded =
     [res \in Responses |-> @[res] \/ Stored(t.connections[videoId], res)]]

\* the timeout callback: res.end() for each, connections.delete(videoId)
cleanup(t, videoId) ==
  [t EXCEPT !.writableEnded =
              [res \in Responses |-> @[res] \/ Stored(t.connections[videoId], res)],
            !.connections[videoId] = <<>>]

\* an addConnection that also writes the events already produced for the video
addConnectionWithHistory(videoId, res) ==
  /\ sse.videoId[res] = 0
  /\ \A r \in Responses : r < res => sse.videoId[r] # 0
  /\ sse' = [sse EXCEPT
       !.videoId[res] = videoId,
       !.written[res] =
          sendEvent(@, Connected(videoId))
            \o SelectSeq(events, LAMBDA e : e.videoId = videoId),
       !.connections[videoId] = Append(@, res)]
  /\ UNCHANGED <<queue, cfg, nextId, budget, inFlight, pc, index, sceneRecords,
                 renders, tempFiles,
                 sourceVideoPath, movieDuration, tmp, videos, events, thrown,
                 tl, cap, settings, response,
                 config, libraryVars>>

\* GET /short-video/:videoId/progress: res is the request's response
addConnection(videoId, res) ==
  /\ sse.videoId[res] = 0
  /\ \A r \in Responses : r < res => sse.videoId[r] # 0
  /\ sse' = [sse EXCEPT
       !.videoId[res] = videoId,
       !.written[res] = sendEvent(@, Connected(videoId)),
       !.connections[videoId] = Append(@, res)]
  /\ UNCHANGED <<queue, cfg, nextId, budget, inFlight, pc, index, sceneRecords,
                 renders, tempFiles,
                 sourceVideoPath, movieDuration, tmp, videos, events, thrown,
                 tl, cap, settings, response,
                 config, libraryVars>>

\* res.on('close'): the client went away, or the ended response was flushed
Close(res) ==
  /\ sse.videoId[res] # 0
  /\ ~sse.closed[res]
  /\ sse' = [removeConnection(sse, sse.videoId[res], res)
               EXCEPT !.closed[res] = TRUE]
  /\ UNCHANGED <<queue, cfg, nextId, budget, inFlight, pc, index, sceneRecords,
                 renders, tempFiles,
                 sourceVideoPath, movieDuration, tmp, videos, events, thrown,
                 tl, cap, settings, response,
                 config, libraryVars>>

\* one second after a complete or error event of videoId
CleanupTimer(videoId) ==
  /\ sse.timers[videoId] > 0
  /\ sse' = [cleanup(sse, videoId) EXCEPT !.timers[videoId] = @ - 1]
  /\ UNCHANGED <<queue, cfg, nextId, budget, inFlight, pc, index, sceneRecords,
                 renders, tempFiles,
                 sourceVideoPath, movieDuration, tmp, videos, events, thrown,
                 tl, cap, settings, response,
                 config, libraryVars>>

\* subscriber workload: pexels jobs of one scene whose collaborators succeed,
\* except that the speech synthesis may fail
TrackerInit ==
  /\ InitState
  /\ NoCalls
  /\ OneError
  /\ NoRequests
  /\ budget = [jobs |-> 2, scenes |-> 1]
  /\ tl = NoPlan
  /\ cap = NoCaptions

TrackerSettle(id) ==
  \/ \E ok \in BOOLEAN : Tts(id, ok)
  \/ Normalize(id, TRUE)
  \/ Caption(id, TRUE)
  \/ Mp3(id, TRUE)
  \/ Pexels(id, TRUE)
  \/ Download(id, "finish")
  \/ RenderEncode(id)
  \/ RenderDone(id, Len(tempFiles[id]))

TrackerNext ==
  \/ addToQueue(1, "pexels") /\ UNCHANGED response
  \/ \E id \in Ids : TrackerSettle(id)
  \/ \E videoId \in Ids, res \in Responses : addConnection(videoId, res)
  \/ \E res \in Responses : Close(res)
  \/ \E videoId \in Ids : CleanupTimer(videoId)

TrackerSpec == TrackerInit /\ [][TrackerNext]_vars
\* ---- vocabulary of the subscriber properties --------------------------------
Opened(res) == sse.videoId[res] # 0

Registered(res) ==
  Opened(res) /\ Stored(sse.connections[sse.videoId[res]], res)

\* the events this step passes to updateProgress
NewEvents == SubSeq(events', Len(events) + 1, Len(events'))

NewEventsOf(videoId) == SelectSeq(NewEvents, LAMBDA e : e.videoId = videoId)

\* what a response has been written after the connection message
Received(res) == Tail(sse.written[res])

\* C21: an event passed to updateProgress is written to every response stored
\* for its video that has not ended, and to no other response
C21_FanOut ==
  [][Len(events') > Len(events) =>
       \A res \in Responses :
         sse'.written[res] =
           IF Registered(res) /\ ~sse.writableEnded[res]
           THEN sse.written[res] \o NewEventsOf(sse.videoId[res])
           ELSE sse.written[res]]_vars

\* two subscribers of two different jobs, each has been sent its job's events
C21_Witness ==
  \E r1, r2 \in Responses :
    /\ Opened(r1) /\ Opened(r2)
    /\ sse.videoId[r1] # sse.videoId[r2]
    /\ Len(Received(r1)) >= 2
    /\ Len(Received(r2)) >= 2

\* C22: what a subscriber of job J has received is a run of consecutive events
\* of J, in the order updateProgress was called
C22_PerJobOrder ==
  \A res \in Responses :
    Opened(res) =>
      /\ sse.written[res][1] = Connected(sse.videoId[res])
      /\ \E skipped \in 0..Len(events) :
           Received(res) =
             SubSeq(EventsOf(sse.videoId[res]), skipped + 1,
                    skipped + Len(Received(res)))

\* a subscriber that joined a running job and followed it to its end
C22_Witness ==
  \E res \in Responses :
    /\ Opened(res)
    /\ Len(Received(res)) >= 4
    /\ Len(Received(res)) < Len(EventsOf(sse.videoId[res]))
    /\ Terminal(Received(res)[Len(Received(res))])

\* C23: when the cleanup timeout of job J runs, every response stored for J is
\* ended and J's entry is gone; responses and entries of other ids are as before
C23_CleanupAfterGrace ==
  [][\A id \in Ids :
       sse'.timers[id] < sse.timers[id] =>
         /\ sse'.connections[id] = <<>>
         /\ \A res \in Responses :
              IF Stored(sse.connections[id], res)
              THEN sse'.writableEnded[res]
              ELSE /\ sse'.writableEnded[res] = sse.writableEnded[res]
                   /\ sse'.written[res] = sse.written[res]
         /\ \A other \in Ids \ {id} :
              sse'.connections[other] = sse.connections[other]]_vars

\* job J's subscriber has been ended by the timeout, another job's has not
C23_Witness ==
  \E r1, r2 \in Responses :
    /\ Opened(r1)
    /\ sse.writableEnded[r1]
    /\ HasStage(sse.videoId[r1], "complete")
    /\ sse.timers[sse.videoId[r1]] = 0
    /\ sse.connections[sse.videoId[r1]] = <<>>
    /\ Registered(r2)
    /\ ~sse.writableEnded[r2]

\* C24: a response opened for a job after its terminal event is written the
\* connection message only, and later nothing but events produced after that
C24_NoHistory ==
  [][\A res \in Responses :
       (\E i \in Positions(sse'.videoId[res]) : Terminal(events[i])) =>
         /\ ~Opened(res) => sse'.written[res] = <<Connected(sse'.videoId[res])>>
         /\ Opened(res) =>
              \E k \in 0..Len(NewEvents) :
                sse'.written[res] = sse.written[res] \o SubSeq(NewEvents, 1, k)
      ]_vars

\* a subscriber that joined after the job's cleanup holds the message only
C24_Witness ==
  \E res \in Responses :
    /\ Registered(res)
    /\ HasStage(sse.videoId[res], "error")
    /\ sse.timers[sse.videoId[res]] = 0
    /\ sse.written[res] = <<Connected(sse.videoId[res])>>

\* ---- what the failing calls reject with --------------------------------------
\* failure workload: the queue workload, for every value a call may reject with
ErrorInit ==
  /\ InitState
  /\ NoCalls
  /\ thrown \in Throwables
  /\ NoRequests
  /\ budget = [jobs |-> 2, scenes |-> 1]
  /\ tl = NoPlan
  /\ cap = NoCaptions

ErrorSpec == ErrorInit /\ [][Next]_vars

\* C27: when a call awaited by createShort(id) rejects, the event published for
\* id has stage error and carries the message of the Error unchanged, or
\* 'Unknown error' when the value is not an Error
C27_ErrorMessagePreserved ==
  [][\A id \in Ids :
       CollaboratorFails(id) /\ NewEventsOf(id) # <<>> =>
         /\ NewEventsOf(id)[1].stage = "error"
         /\ NewEventsOf(id)[1].error =
              IF thrown.isError THEN thrown.message ELSE "Unknown error"]_vars

\* a job has failed with an Error and its message is in the error event
C27_Witness ==
  /\ thrown = [isError |-> TRUE, message |-> "Video abc not found"]
  /\ \E i \in 1..Len(events) :
       /\ events[i].stage = "error"
       /\ events[i].error = "Video abc not found"

\* ---- APIRouter: POST /short-video ------------------------------------------
\* what is wrong with a request body: nothing, or what the message of the
\* Error thrown by the validation looks like
Problems == {"none", "missingFields", "brace", "plain"}

Bodies == [problem : Problems, n : 1..QueueScenes, source : VideoSources]

\* validateCreateShortInput: returns the input, or throws an Error whose
\* message is a JSON object, starts with "{" without being JSON, or is text
validateCreateShortInput(body) ==
  [throws |-> body.problem # "none", message |-> body.problem]

\* the 400 of the catch: JSON.parse of a message that starts with "{"
badRequest(message) ==
  [of |-> "POST /short-video", status |-> 400,
   error |-> IF message = "missingFields" THEN "Validation failed"
             ELSE "Invalid input"]

\* a handler that enqueues whatever it is sent
PostShortVideoUnvalidated(body) ==
  /\ addToQueue(body.n, body.source)
  /\ response' = [of |-> "POST /short-video", status |-> 201,
                  videoId |-> nextId']

PostShortVideo(body) ==
  LET input == validateCreateShortInput(body)
  IN IF input.throws
     THEN /\ response' = badRequest(input.message)
          /\ UNCHANGED <<queueVars, tl, cap, settings,
                 config, libraryVars>>
     ELSE /\ addToQueue(body.n, body.source)
          /\ response' = [of |-> "POST /short-video", status |-> 201,
                          videoId |-> nextId']

\* ShortCreator.getVideo: the bytes of <videoId>.mp4, or it throws
getVideo(vids, videoId) == IF videoId \in vids THEN "bytes" ELSE "throws"

\* a caller asks for the artifact of videoId
GetVideo(videoId) ==
  /\ response' = [of |-> "getVideo", videoId |-> videoId,
                  result |-> getVideo(videos, videoId)]
  /\ UNCHANGED <<queueVars, tl, cap, settings,
                 config, libraryVars>>

\* request workload: two jobs of one scene, submitted through the router
RestInit ==
  /\ InitState
  /\ NoCalls
  /\ OneError
  /\ NoRequests
  /\ budget = [jobs |-> 2, scenes |-> 1]
  /\ tl = NoPlan
  /\ cap = NoCaptions

RestNext ==
  \/ \E body \in Bodies : PostShortVideo(body)
  \/ \E id \in Ids : GetVideo(id)
  \/ \E id \in Ids : deleteVideo(id)
  \/ \E id \in Ids : Settle(id)

RestSpec == RestInit /\ [][RestNext]_vars

\* C25: a POST /short-video whose body fails validation is answered with 400,
\* hands out no id, and leaves the queue and the jobs as they are
C25_RejectedBeforeEnqueue ==
  [][\A body \in Bodies :
       PostShortVideo(body) /\ body.problem # "none" =>
         /\ response'.status = 400
         /\ UNCHANGED <<queue, cfg, nextId, inFlight, pc, events>>]_vars

\* a malformed request has been refused while a job was being processed
C25_Witness ==
  /\ response = badRequest("missingFields")
  /\ Len(queue) = 1
  /\ nextId = 1

\* C26: getVideo returns the bytes exactly for an id whose status is ready, and
\* throws for an id that is absent, failed or still in the queue
C26_VideoOnlyWhenReady ==
  [][\A id \in Ids :
       GetVideo(id) =>
         response'.result = IF status(id) = "ready" THEN "bytes" ELSE "throws"
    ]_vars

\* C28: deleteVideo leaves the queue, the running job and its events alone
C28_DeleteLeavesQueue ==
  [][\A id \in Ids :
       deleteVideo(id) =>
         UNCHANGED <<queue, cfg, inFlight, pc, index, tempFiles, events>>]_vars

\* the artifact of the job being processed has been deleted under it
C28_Witness ==
  \E id \in Ids : pc[id] = "encoded" /\ id \notin videos /\ QueueHead(queue) = id

\* the temp files of job id that are on disk
TempFilesOf(id) == {file \in tmp : file[1] = id}

\* C29: once a job has succeeded, none of its temp files is left and its
\* complete event has been published
C29_OnlyArtifactRetained ==
  \A id \in Ids :
    Successful(id) => TempFilesOf(id) = {} /\ HasStage(id, "complete")

\* a job has succeeded and its artifact is there, while the next job's temp
\* files are on disk
C29_Witness ==
  \E id \in Ids :
    /\ Successful(id)
    /\ id \in videos
    /\ tmp # {}

\* ---- SettingsManager ---------------------------------------------------------
\* API keys: empty, two secrets, and the text getSettings puts in their place
Keys == {"", "key-A", "key-B", "***"}

NonEmptyKeys == Keys \ {""}

KeyFields == {"veniceApiKey", "pexelsApiKey"}

\* every AppSettings value; Undefined stands for a field that is not there
AppSettings ==
  [veniceApiKey : Keys \cup {Undefined},
   veniceChatModel : {Undefined, "llama-3.3-70b"},
   ttsProvider : {Undefined, "kokoro", "venice"},
   transcriptionProvider : {Undefined, "whisper"},
   pexelsApiKey : Keys \cup {Undefined}]

\* the bodies of PUT /settings: any keys, possibly a provider
PartialSettings ==
  {new \in AppSettings :
     /\ new.veniceChatModel = Undefined
     /\ new.transcriptionProvider = Undefined
     /\ new.ttsProvider # "kokoro"}

\* this.settings.veniceApiKey ? '***' : undefined
mask(key) == IF key \in {Undefined, ""} THEN Undefined ELSE "***"

\* a getSettings that returns what is stored
getSettingsUnmasked(stored, includeSensitive) == stored

getSettings(stored, includeSensitive) ==
  IF includeSensitive THEN stored
  ELSE [stored EXCEPT !.veniceApiKey = mask(@), !.pexelsApiKey = mask(@)]

\* { ...this.settings, ...newSettings }
merge(stored, new) ==
  [field \in DOMAIN stored |->
     IF new[field] = Undefined THEN stored[field] ELSE new[field]]

\* the settings resetSettings stores
Defaults ==
  [NoSettings EXCEPT !.veniceChatModel = "llama-3.3-70b",
                     !.ttsProvider = "kokoro",
                     !.transcriptionProvider = "whisper"]

\* the managed fields of Config as the environment sets them: the providers
\* and the model have their defaults, the Pexels key may be set
EnvConfigs == {Defaults, [Defaults EXCEPT !.pexelsApiKey = "key-A"]}

\* if (this.settings.x !== undefined) this.config.x = this.settings.x
applySettingsToConfig(conf, stored) == merge(conf, stored)

\* settings.json as loadSettings finds it and applies it to the config, or
\* the defaults taken from config
SettingsInit ==
  /\ InitState
  /\ NoCalls
  /\ OneError
  /\ budget = [jobs |-> 0, scenes |-> 0]
  /\ tl = NoPlan
  /\ cap = NoCaptions
  /\ settings \in AppSettings
  /\ config = applySettingsToConfig(Defaults, settings)
  /\ response = NoResponse

\* GET /settings
GetSettings ==
  /\ response' = [of |-> "getSettings",
                  settings |-> getSettings(settings, FALSE)]
  /\ UNCHANGED <<queueVars, tl, cap, settings,
                 config, libraryVars>>

\* PUT /settings
UpdateSettings(new) ==
  /\ settings' = merge(settings, new)
  /\ config' = applySettingsToConfig(config, new)
  /\ response' = [of |-> "updateSettings",
                  settings |-> getSettings(settings', FALSE)]
  /\ UNCHANGED <<queueVars, tl, cap, libraryVars>>

\* POST /settings/reset
ResetSettings ==
  /\ settings' = Defaults
  /\ response' = [of |-> "resetSettings",
                  settings |-> getSettings(settings', FALSE)]
  /\ UNCHANGED <<queueVars, tl, cap,
                 config, libraryVars>>

SettingsNext ==
  \/ GetSettings
  \/ \E new \in PartialSettings : UpdateSettings(new)
  \/ ResetSettings

SettingsSpec == SettingsInit /\ [][SettingsNext]_vars

\* the values setSetting is called with for each key
SettingValues(key) ==
  CASE key \in KeyFields -> {Undefined, "key-A"}
    [] key = "veniceChatModel" -> {Undefined, "llama-3.3-70b"}
    [] key = "ttsProvider" -> {Undefined, "kokoro", "venice"}
    [] key = "transcriptionProvider" -> {Undefined, "whisper"}

\* setSetting(key, value): the keys and the model reach the config only as
\* strings, the providers as they are
SetSetting(key, value) ==
  /\ settings' = [settings EXCEPT ![key] = value]
  /\ config' =
       IF key \in KeyFields \cup {"veniceChatModel"} /\ value = Undefined
       THEN config
       ELSE [config EXCEPT ![key] = value]
  /\ response' = [of |-> "setSetting"]
  /\ UNCHANGED <<queueVars, tl, cap, libraryVars>>

\* the bodies of the updates of the config workload
ConfigUpdates ==
  {new \in AppSettings :
     /\ new.veniceApiKey \in {Undefined, "key-B"}
     /\ new.pexelsApiKey = Undefined
     /\ new.veniceChatModel = Undefined
     /\ new.transcriptionProvider = Undefined}

\* config workload: the settings manager is constructed on an absent or an
\* empty settings.json
ConfigInit ==
  /\ InitState
  /\ NoCalls
  /\ OneError
  /\ budget = [jobs |-> 0, scenes |-> 0]
  /\ tl = NoPlan
  /\ cap = NoCaptions
  /\ \E env \in EnvConfigs :
       \E stored \in {env, NoSettings} :
         settings = stored /\ config = applySettingsToConfig(env, stored)
  /\ response = NoResponse

ConfigNext ==
  \/ \E new \in ConfigUpdates : UpdateSettings(new)
  \/ \E key \in DOMAIN NoSettings :
       \E value \in SettingValues(key) : SetSetting(key, value)
  \/ ResetSettings

ConfigSpec == ConfigInit /\ [][ConfigNext]_vars

\* ---- vocabulary of the settings properties ---------------------------------
SettingsCall ==
  GetSettings \/ (\E new \in PartialSettings : UpdateSettings(new))
    \/ ResetSettings

\* stored settings with the non-empty keys replaced by other non-empty keys
OtherKeys(stored) ==
  {other \in AppSettings :
     /\ \A field \in DOMAIN stored \ KeyFields : other[field] = stored[field]
     /\ \A field \in KeyFields :
          IF stored[field] \in NonEmptyKeys
          THEN other[field] \in NonEmptyKeys
          ELSE other[field] = stored[field]}

\* the returned settings do not depend on what the non-empty keys are
KeysDoNotShow(stored) ==
  \A other \in OtherKeys(stored) :
    getSettings(other, FALSE) = getSettings(stored, FALSE)

\* C30 as stated: what getSettings(), updateSettings and resetSettings return
\* never holds a stored non-empty key, and does not depend on the key values
C30_KeysMasked ==
  [][SettingsCall =>
       /\ \A field \in KeyFields :
            settings'[field] \in NonEmptyKeys
              => response'.settings[field] # settings'[field]
       /\ KeysDoNotShow(settings')]_vars

\* C30 amended: a stored non-empty key is returned as '***', which differs
\* from the key unless the key is '***' itself, and an empty or absent key is
\* returned as absent; the returned settings do not depend on the key values
C30_KeysMaskedUnlessMask ==
  [][SettingsCall =>
       /\ \A field \in KeyFields :
            /\ response'.settings[field] = mask(settings'[field])
            /\ settings'[field] \in NonEmptyKeys \ {"***"}
                 => response'.settings[field] # settings'[field]
       /\ KeysDoNotShow(settings')]_vars

\* two different secrets are stored and an update has returned them masked
C30_Witness ==
  /\ response.of = "updateSettings"
  /\ settings.veniceApiKey = "key-A"
  /\ settings.pexelsApiKey = "key-B"
  /\ response.settings.veniceApiKey = "***"
  /\ response.settings.pexelsApiKey = "***"

\* ---- C31 ------------------------------------------------------------------
\* the awaited call that may follow each awaited call of one scene
NextCalls(call) ==
  CASE call = "tts" -> {"normalize"}
    [] call = "normalize" -> {"caption"}
    [] call = "caption" -> {"mp3"}
    [] call = "mp3" -> {"venice", "crop", "pexels"}
    [] call = "venice" -> {"write", "download"}
    [] call = "pexels" -> {"download"}
    [] OTHER -> {}

\* the calls whose settling ends a scene: its record is appended next
LastCalls == {"write", "download", "crop"}

\* the input scenes 1..n in input order
InputOrder(n) == [j \in 1..n |-> j]

RendersOf(id) == {k \in 1..Len(renders) : renders[k].videoId = id}

\* C31: the awaited calls of a job follow each other scene by scene in the
\* order synthesize, normalize, transcribe, (mp3,) fetch footage, append; the
\* synthesis of a scene starts only when the records of all scenes before it
\* are appended, in input order; remotion.render is called at most once per
\* job, after the last scene, with one record per input scene in input
\* order, and exactly once for a job that completes.
C31_ScenesInSequence ==
  [][\A id \in Ids :
       /\ (NextCalls(pc[id]) # {} /\ pc'[id] \notin {pc[id], "none"})
            => /\ pc'[id] \in NextCalls(pc[id])
               /\ index'[id] = index[id]
               /\ sceneRecords'[id] = sceneRecords[id]
       /\ (pc[id] \in LastCalls /\ pc'[id] \notin {pc[id], "none", "stalled"})
            => /\ pc'[id] \in {"tts", "render"}
               /\ sceneRecords'[id] = Append(sceneRecords[id], index[id] + 1)
               /\ index'[id] = index[id] + 1
       /\ pc'[id] = "tts"
            => sceneRecords'[id] = InputOrder(index'[id])
       /\ (pc'[id] = "render" /\ pc[id] # "render")
            => /\ index'[id] = cfg[id].n
               /\ renders' = Append(renders,
                    [videoId |-> id, scenes |-> InputOrder(cfg[id].n)])
       /\ (\A other \in Ids : ~(pc'[other] = "render" /\ pc[other] # "render"))
            => renders' = renders
       /\ Cardinality({k \in 1..Len(renders') : renders'[k].videoId = id}) <= 1
       /\ (\E i \in 1..Len(events') :
             events'[i].videoId = id /\ events'[i].stage = "complete")
            => Cardinality({k \in 1..Len(renders') :
                              renders'[k].videoId = id}) = 1]_vars

\* a job of three scenes was rendered and has completed
C31_Witness ==
  \E id \in Ids :
    /\ HasStage(id, "complete")
    /\ \E k \in RendersOf(id) : Len(renders[k].scenes) = 3

\* ---- LandscapeVideo: getTransitionStyle -------------------------------------
\* Frames are kept in thousandths of a frame, as above.  A value that
\* interpolate returns is kept as its numerator over the length of the input
\* range, so that the two ramps of one call have the same denominator.
Transitions == {"none", "fade", "slide"}

\* config.transitionDuration, in milliseconds
TransitionDurations == {200, 500}

\* the sceneDuration argument, in milliseconds
SceneDurations == {200, 700, 1500}

\* the fraction of a frame by which frame - startFrame is off a whole frame
FrameOffsets == {0, 500}

\* remotion's interpolate for a two-point range, options "clamp" or "extend"
interpolate(input, inputRange, outputRange, extrapolateLeft, extrapolateRight) ==
  LET x == IF input < inputRange[1] /\ extrapolateLeft = "clamp"
           THEN inputRange[1]
           ELSE IF input > inputRange[2] /\ extrapolateRight = "clamp"
           THEN inputRange[2]
           ELSE input
  IN outputRange[1] * (inputRange[2] - inputRange[1])
       + (outputRange[2] - outputRange[1]) * (x - inputRange[1])

Min(a, b) == IF a <= b THEN a ELSE b

\* a transition style that only fades in
getTransitionStyleFadeIn(transition, transitionDurationFrames, sceneFrame, sceneDuration) ==
  IF transition = "none" THEN [num |-> 1, den |-> 1]
  ELSE [num |-> interpolate(sceneFrame, <<0, transitionDurationFrames>>,
                            <<0, 1>>, "extend", "clamp"),
        den |-> transitionDurationFrames]

\* the opacity of the style getTransitionStyle returns
getTransitionStyle(transition, transitionDurationFrames, sceneFrame, sceneDuration) ==
  IF transition = "none" THEN [num |-> 1, den |-> 1]
  ELSE LET fadeInProgress ==
             interpolate(sceneFrame, <<0, transitionDurationFrames>>,
                         <<0, 1>>, "extend", "clamp")
           fadeOutProgress ==
             interpolate(sceneFrame,
                         <<sceneDuration - transitionDurationFrames,
                           sceneDuration>>,
                         <<1, 0>>, "clamp", "extend")
       IN [num |-> Min(fadeInProgress, fadeOutProgress),
           den |-> transitionDurationFrames]

\* the props of one composition and the duration of one of its scenes
StyleInit ==
  /\ InitState
  /\ OneError
  /\ NoRequests
  /\ budget = [jobs |-> 0, scenes |-> 0]
  /\ tl = NoPlan
  /\ cap = NoCaptions
  /\ poll = [phase |-> "idle"]
  /\ clip = [phase |-> "idle"]
  /\ \E tr \in Transitions, f \in Fps, d \in TransitionDurations,
        sd \in SceneDurations :
       style = [phase |-> "props", transition |-> tr,
                transitionDurationFrames |-> d * f,
                sceneDuration |-> sd * f, sceneFrame |-> 0,
                opacity |-> [num |-> 0, den |-> 1]]

\* the scene is drawn at one frame inside its Sequence
DrawStyle(sceneFrame) ==
  /\ style.phase # "idle"
  /\ 0 <= sceneFrame
  /\ sceneFrame < style.sceneDuration
  /\ style' = [style EXCEPT
       !.phase = "drawn",
       !.sceneFrame = sceneFrame,
       !.opacity = getTransitionStyle(style.transition,
                     style.transitionDurationFrames, sceneFrame,
                     style.sceneDuration)]
  /\ UNCHANGED <<queueVars, tl, cap, settings, response, config, poll, clip>>

\* the whole frames at which a scene is drawn
SceneFrames == 0..45

StyleNext ==
  \E f \in SceneFrames, off \in FrameOffsets : DrawStyle(1000 * f + off)

StyleSpec == StyleInit /\ [][StyleNext]_vars

\* the ramps of C32, as numerators over transitionDurationFrames
EntryRamp ==
  IF style.sceneFrame >= style.transitionDurationFrames
  THEN style.transitionDurationFrames
  ELSE style.sceneFrame

ExitRamp ==
  IF style.sceneFrame <= style.sceneDuration - style.transitionDurationFrames
  THEN style.transitionDurationFrames
  ELSE style.sceneDuration - style.sceneFrame

\* C32: at every frame of a scene the opacity of transition 'fade' is the
\* smaller of the entry ramp and the exit ramp and lies in [0, 1]; the
\* opacity of transition 'none' is 1.
C32_Opacity ==
  style.phase = "drawn" =>
    /\ style.transition = "fade" =>
         /\ style.opacity.den = style.transitionDurationFrames
         /\ style.opacity.num = Min(EntryRamp, ExitRamp)
         /\ 0 <= style.opacity.num
         /\ style.opacity.num <= style.opacity.den
    /\ style.transition = "none" => style.opacity.num = style.opacity.den

\* a fading scene is drawn on its exit ramp, partly transparent
C32_Witness ==
  /\ style.phase = "drawn"
  /\ style.transition = "fade"
  /\ style.sceneFrame > style.sceneDuration - style.transitionDurationFrames
  /\ style.sceneFrame > style.transitionDurationFrames
  /\ 0 < style.opacity.num
  /\ style.opacity.num < style.opacity.den

\* ---- subscribers that know a job's id from addToQueue ------------------------
\* subscriber workload with Plex jobs: every call succeeds, except that the
\* lookup of the movie may fail
SubscribeSettle(id) ==
  \/ \E ok \in BOOLEAN : PlexPath(id, ok)
  \/ \E d \in MovieDurations : VideoDuration(id, TRUE, d)
  \/ Tts(id, TRUE)
  \/ Normalize(id, TRUE)
  \/ Caption(id, TRUE)
  \/ Mp3(id, TRUE)
  \/ Crop(id, TRUE)
  \/ Pexels(id, TRUE)
  \/ Download(id, "finish")
  \/ RenderEncode(id)
  \/ RenderDone(id, Len(tempFiles[id]))

\* the workload has one GET .../progress request
OneResponse == {1}

\* a client asks for the progress of an id that POST /short-video returned
SubscribeNext ==
  \/ \E source \in {"pexels", "plex"} :
       addToQueue(1, source) /\ UNCHANGED response
  \/ \E id \in Ids : SubscribeSettle(id)
  \/ \E videoId \in Ids, res \in OneResponse :
       videoId <= nextId /\ addConnection(videoId, res)
  \/ \E res \in OneResponse : Close(res)
  \/ \E videoId \in Ids : CleanupTimer(videoId)

SubscribeSpec == TrackerInit /\ [][SubscribeNext]_vars

\* what this step has written to res after what it held
NewlyWritten(res) ==
  IF Opened(res)
  THEN SubSeq(sse'.written[res], Len(sse.written[res]) + 1,
              Len(sse'.written[res]))
  ELSE IF sse'.written[res] = <<>> THEN <<>>
  ELSE Tail(sse'.written[res])

\* id was waiting behind the job that is being processed
Waiting(id) == InQueue(queue, id) /\ queue[1] # id

FirstAudio(e) == e.stage = "generating_audio" /\ e.progress = 0

\* C33 as stated: the step that submits a job to an empty queue publishes the
\* job's 'queued' and first 'generating_audio' events and writes them to no
\* response; a response is written the 'queued' or the first
\* 'generating_audio' event of a job only if the job waited in the queue
C33_FirstEventsUnseen ==
  [][/\ (nextId' = nextId + 1 /\ queue = <<>>) =>
          /\ StagesOf(NewEventsOf(nextId')) = <<"queued", "generating_audio">>
          /\ sse'.written = sse.written
     /\ \A res \in Responses :
          \A k \in 1..Len(NewlyWritten(res)) :
            LET e == NewlyWritten(res)[k]
            IN (e.stage = "queued" \/ FirstAudio(e)) => Waiting(e.videoId)
    ]_vars

\* C33 amended: the step that submits a job to an empty queue publishes the
\* job's 'queued' event, and its first 'generating_audio' event unless the job
\* takes its footage from Plex, and writes them to no response; a response is
\* written the 'queued' event of a job only if the job waited in the queue, and
\* the first 'generating_audio' event only if the job waited in the queue or
\* the event follows the awaited Plex calls
C33_FirstEventsUnseenUnlessPlex ==
  [][/\ (nextId' = nextId + 1 /\ queue = <<>>) =>
          /\ StagesOf(NewEventsOf(nextId')) =
               IF cfg'[nextId'].videoSource = "plex"
               THEN <<"queued">>
               ELSE <<"queued", "generating_audio">>
          /\ sse'.written = sse.written
     /\ \A res \in Responses :
          \A k \in 1..Len(NewlyWritten(res)) :
            LET e == NewlyWritten(res)[k]
            IN /\ e.stage = "queued" => Waiting(e.videoId)
               /\ FirstAudio(e) =>
                    Waiting(e.videoId) \/ pc[e.videoId] \in {"plex", "duration"}
    ]_vars

\* the first job went to an empty queue with Plex footage, and a subscriber
\* that joined during the lookup was sent its first 'generating_audio' event
C33_Witness ==
  \E res \in Responses :
    /\ Opened(res)
    /\ sse.videoId[res] = 1
    /\ Len(Received(res)) >= 1
    /\ FirstAudio(Received(res)[1])
    /\ pc[1] = "tts"

\* ---- C34 ------------------------------------------------------------------
\* the cleanup timeouts run and the pending calls of the running job settle;
\* a client is never obliged to close its connection
TrackerFairSpec ==
  /\ TrackerInit
  /\ [][TrackerNext]_vars
  /\ \A id \in Ids : WF_vars(TrackerSettle(id)) /\ WF_vars(CleanupTimer(id))

\* C34: a response registered for a job that has reached its terminal event
\* is eventually ended by the tracker, and does not stay stored for ever
C34_FinishedJobsAreReleased ==
  \A res \in Responses :
    []<>~(/\ Registered(res)
          /\ TerminalPositions(sse.videoId[res]) # {}
          /\ ~sse.writableEnded[res])

\* ---- C35 ------------------------------------------------------------------
\* C35: whatever the request, the response and the write stream of a footage
\* download do, the download promise is resolved or rejected: no job is left
\* awaiting a download promise that nothing can settle any more.
C35_DownloadSettles == \A id \in Ids : pc[id] # "stalled"

\* ---- C37 ------------------------------------------------------------------
\* C37: when the lookup of the Plex movie path fails, no error event is
\* published, the job stays in the queue and goes on with the synthesis of
\* its first scene, and each of its scenes takes its footage from Pexels.
C37_PlexFailureFallsBack ==
  [][\A id \in Ids :
       /\ PlexPath(id, FALSE) =>
            /\ StagesOf(NewEventsOf(id)) = <<"generating_audio">>
            /\ InQueue(queue', id)
            /\ pc'[id] = "tts"
            /\ ~sourceVideoPath'[id]
       /\ (cfg[id].videoSource = "plex" /\ ~sourceVideoPath[id]
             /\ pc[id] \notin {"none", "plex"}) =>
            /\ ~sourceVideoPath'[id]
            /\ pc'[id] \notin {"crop", "venice", "write"}
            /\ (pc[id] = "mp3" /\ pc'[id] \notin {"mp3", "none"}) =>
                 pc'[id] = "pexels"]_vars

\* a Plex job whose lookup failed is downloading Pexels footage for its
\* second scene
C37_Witness ==
  \E id \in Ids :
    /\ cfg[id].videoSource = "plex"
    /\ ~sourceVideoPath[id]
    /\ index[id] = 1
    /\ pc[id] = "download"
    /\ ~HasStage(id, "error")

\* ---- VeniceVideo.waitForVideo --------------------------------------------------
\* Time is counted in seconds since startTime.
MaxWaitTimes == {0, 4, 7, 10}

PollIntervals == {1, 2}

\* how long one call of getVideoStatus takes
StatusTimes == {1, 3}

\* what getVideoStatus does: it returns a status, with or without a video_url,
\* or throws
StatusResults ==
  {"completed with video_url", "completed", "failed", "processing", "queued",
   "throws"}

\* while (Date.now() - startTime < maxWaitTimeMs) { attempts++; getVideoStatus
\* is called }, and the throw after the loop
whileTest(p) ==
  IF p.elapsed < p.maxWaitTimeMs
  THEN [p EXCEPT !.attempts = @ + 1, !.phase = "getVideoStatus"]
  ELSE [p EXCEPT !.phase = "thrown", !.outcome = "timed out"]

\* a loop body that goes on polling after a 'failed' status
afterStatusRetrying(p, result) ==
  CASE result = "completed with video_url" ->
         [p EXCEPT !.phase = "returned", !.outcome = "video_url"]
    [] result = "throws" ->
         [p EXCEPT !.phase = "thrown", !.outcome = "status call failed"]
    [] OTHER -> [p EXCEPT !.phase = "setTimeout"]

\* the body of the loop after await getVideoStatus, with its catch
afterStatus(p, result) ==
  CASE result = "completed with video_url" ->
         [p EXCEPT !.phase = "returned", !.outcome = "video_url"]
    [] result = "failed" ->
         [p EXCEPT !.phase = "thrown", !.outcome = "generation failed"]
    [] result = "throws" ->
         [p EXCEPT !.phase = "thrown", !.outcome = "status call failed"]
    [] OTHER -> [p EXCEPT !.phase = "setTimeout"]

\* waitForVideo(queueId, model, maxWaitTimeMs, pollIntervalMs) is called
PollInit ==
  /\ InitState
  /\ OneError
  /\ NoRequests
  /\ budget = [jobs |-> 0, scenes |-> 0]
  /\ tl = NoPlan
  /\ cap = NoCaptions
  /\ clip = [phase |-> "idle"]
  /\ style = [phase |-> "idle"]
  /\ \E wait \in MaxWaitTimes, interval \in PollIntervals :
       poll = whileTest([phase |-> "called", maxWaitTimeMs |-> wait,
                         pollIntervalMs |-> interval, elapsed |-> 0,
                         attempts |-> 0, outcome |-> "none"])

\* await this.getVideoStatus(queueId, model) settles after `took` seconds
StatusSettles(result, took) ==
  /\ poll.phase = "getVideoStatus"
  /\ poll' = afterStatus([poll EXCEPT !.elapsed = @ + took], result)
  /\ UNCHANGED <<queueVars, tl, cap, settings, response, config, clip, style>>

\* await new Promise(resolve => setTimeout(resolve, pollIntervalMs)) settles
PollTimer ==
  /\ poll.phase = "setTimeout"
  /\ poll' = whileTest([poll EXCEPT !.elapsed = @ + poll.pollIntervalMs])
  /\ UNCHANGED <<queueVars, tl, cap, settings, response, config, clip, style>>

PollNext ==
  \/ \E result \in StatusResults, took \in StatusTimes :
       StatusSettles(result, took)
  \/ PollTimer

\* every status call settles and every timer fires
PollSpec == PollInit /\ [][PollNext]_vars /\ WF_vars(PollNext)

Ended == poll.phase \in {"returned", "thrown"}

C38_ConfigFollowsSettings ==
  \A field \in DOMAIN NoSettings :
    settings[field] # Undefined => config[field] = settings[field]


\* ---- the caption pages' Sequences of LandscapeVideo -------------------------
\* const pages = createCaptionPages({captions, lineMaxLength: 30, lineCount: 1,
\* maxDistanceMs: 1000}), rendered at the composition's fps
PageInit ==
  /\ InitState
  /\ NoCalls
  /\ OneError
  /\ NoRequests
  /\ budget = [jobs |-> 0, scenes |-> 0]
  /\ tl = NoPlan
  /\ \E tokens \in CaptionLists, f \in Fps :
       cap = [NoCaptions EXCEPT !.phase = "captions", !.fps = f,
                !.tokens = tokens, !.lineMaxLength = 30, !.lineCount = 1,
                !.maxDistanceMs = 1000]

\* <Sequence from={Math.round((page.startMs / 1000) * fps)}
\*           durationInFrames={Math.round(((page.endMs - page.startMs) / 1000)
\*                                        * fps)}>
pageSequence(page, fps) ==
  [startMs |-> page.startMs, endMs |-> page.endMs, lines |-> page.lines,
   from |-> Round1000(page.startMs * fps),
   durationInFrames |-> Round1000((page.endMs - page.startMs) * fps)]

\* pages.map((page, j) => <Sequence ...>)
SequencePages ==
  /\ cap.phase = "paged"
  /\ cap' = [cap EXCEPT
       !.phase = "sequenced",
       !.pages = [j \in DOMAIN cap.pages |-> pageSequence(cap.pages[j], cap.fps)]]
  /\ UNCHANGED <<queueVars, tl, settings, response,
                 config, libraryVars>>

PageNext == Paginate \/ SequencePages

PageSpec == PageInit /\ [][PageNext]_vars

Sequenced == cap.phase = "sequenced"

\* C39: the frame slots of consecutive caption pages never overlap: whenever a
\* page ends no later than the next one starts, its first frame plus its
\* length in frames is at most the first frame of the next page
C39_PageSlotsDisjoint ==
  Sequenced =>
    \A j \in 1..(Len(cap.pages) - 1) :
      cap.pages[j].endMs <= cap.pages[j + 1].startMs
        => cap.pages[j].from + cap.pages[j].durationInFrames
             <= cap.pages[j + 1].from


\* ---- the Plex clip of one scene ---------------------------------------------
\* const durationBufferSeconds = 3
durationBufferSeconds == 3

\* metadata.format.duration of the movie file, in milliseconds; 0 when ffprobe
\* reports none
ClipMovieDurations == {0, 5000, 8000, 9000, 60000, 7200000}

\* Math.random(), in quarters
Quarters == 0..3

\* a scene of createShort after its audio is known: sourceVideoPath is set
\* when the Plex lookup succeeded, and only then is the movie probed
ClipInit ==
  /\ InitState
  /\ OneError
  /\ NoRequests
  /\ budget = [jobs |-> 0, scenes |-> 0]
  /\ tl = NoPlan
  /\ cap = NoCaptions
  /\ poll = [phase |-> "idle"]
  /\ style = [phase |-> "idle"]
  /\ \E path \in BOOLEAN, d \in ClipMovieDurations, a \in AudioLengths :
       clip = [phase |-> "scene", sourceVideoPath |-> path,
               movieDuration |-> IF path THEN d ELSE 0, audioLength |-> a,
               clipDuration |-> 0, randomStartTime |-> 0]

\* else if (sourceVideoPath && movieDuration > 0) {
\*   const clipDuration = audioLength + durationBufferSeconds;
\*   const randomStartTime = Math.random() * (movieDuration - clipDuration);
\*   await this.ffmpeg.dynamicCrop(sourceVideoPath, tempClipPath, width, height,
\*                                 randomStartTime, clipDuration, aspectRatio)
PlexClip(random) ==
  /\ clip.phase = "scene"
  /\ clip.sourceVideoPath
  /\ clip.movieDuration > 0
  /\ LET clipDuration == clip.audioLength + durationBufferSeconds * 1000
     IN clip' = [clip EXCEPT
          !.phase = "dynamicCrop",
          !.clipDuration = clipDuration,
          !.randomStartTime =
            (random * (clip.movieDuration - clipDuration)) \div 4]
  /\ UNCHANGED <<queueVars, tl, cap, settings, response, config, poll, style>>

\* } else { const pexelsVideo = await this.pexelsApi.findVideo(...)
PexelsClip ==
  /\ clip.phase = "scene"
  /\ ~(clip.sourceVideoPath /\ clip.movieDuration > 0)
  /\ clip' = [clip EXCEPT !.phase = "findVideo"]
  /\ UNCHANGED <<queueVars, tl, cap, settings, response, config, poll, style>>

\* dynamicCrop resolves (videoUrl is set) or rejects (createShort throws)
DynamicCropSettles(ok) ==
  /\ clip.phase = "dynamicCrop"
  /\ clip' = [clip EXCEPT !.phase = IF ok THEN "videoUrl" ELSE "thrown"]
  /\ UNCHANGED <<queueVars, tl, cap, settings, response, config, poll, style>>

ClipNext ==
  \/ \E random \in Quarters : PlexClip(random)
  \/ PexelsClip
  \/ \E ok \in BOOLEAN : DynamicCropSettles(ok)

ClipSpec == ClipInit /\ [][ClipNext]_vars

Clipped == clip.phase \in {"dynamicCrop", "videoUrl", "thrown"}

\* C40: the window cut from the Plex movie lies inside the movie: the start
\* time is not negative and start plus clip duration (audio length plus three
\* seconds) is at most the movie's duration
C40_ClipInsideMovie ==
  Clipped =>
    /\ clip.clipDuration = clip.audioLength + 3000
    /\ 0 <= clip.randomStartTime
    /\ clip.randomStartTime + clip.clipDuration <= clip.movieDuration

====
